---- MODULE Spec2Model ----
(***************************************************************************)
(* A model of the "validate" command of ocitools (src/runtimetest.go): the *)
(* bundle loading steps, the six configuration checkers and the generic    *)
(* mandatory-field walker.                                                  *)
(*                                                                         *)
(* Go strings that the code only compares for equality are TLA+ strings    *)
(* (kind "String"); Go strings that the code parses character by character *)
(* (environment entries, version, paths) are sequences of one-character    *)
(* strings (kind "Text").  A Go pointer is a sequence of length 0 (nil) or  *)
(* 1 (the pointee).  A Go slice is a sequence, a Go map a function.         *)
(* An error is a record [msg, args]: the format string and its arguments.  *)
(***************************************************************************)
EXTENDS Integers, Sequences, FiniteSets, TLC

(***************************************************************************)
(* Bounds of the model.                                                    *)
(***************************************************************************)
MaxEnvLen == 3
MaxNamespaces == 3
MaxHooks == 2
MaxNumber == 1
MaxElems == 2

(***************************************************************************)
(* Sequences and text.                                                     *)
(***************************************************************************)
Range(s) == {s[i] : i \in 1..Len(s)}

RECURSIVE Flatten(_)
Flatten(ss) == IF Len(ss) = 0 THEN <<>> ELSE Head(ss) \o Flatten(Tail(ss))

RECURSIVE SeqsUpTo(_, _)
SeqsUpTo(S, n) ==
  IF n = 0 THEN {<<>>}
  ELSE LET shorter == SeqsUpTo(S, n - 1)
       IN  shorter \cup {Append(s, x) : s \in {t \in shorter : Len(t) = n - 1}, x \in S}

Err(msg, args) == [msg |-> msg, args |-> args]

Digits == {"0", "1", "2", "3", "4", "5", "6", "7", "8", "9"}
Letters == {"A", "B", "K", "Z", "a", "k", "v", "z"}
Spaces == {" ", "\t"}

\* unicode.IsDigit, unicode.IsLetter (lines 390)
IsDigit(ch) == ch \in Digits
IsLetter(ch) == ch \in Letters

\* strings.Split(s, sep) for a one-character separator (line 385)
RECURSIVE SplitFrom(_, _, _)
SplitFrom(s, sep, cur) ==
  IF Len(s) = 0 THEN <<cur>>
  ELSE IF Head(s) = sep THEN <<cur>> \o SplitFrom(Tail(s), sep, <<>>)
  ELSE SplitFrom(Tail(s), sep, Append(cur, Head(s)))

Split(s, sep) == SplitFrom(s, sep, <<>>)

\* strings.TrimSpace (line 389)
RECURSIVE TrimLeft(_)
TrimLeft(s) == IF Len(s) > 0 /\ Head(s) \in Spaces THEN TrimLeft(Tail(s)) ELSE s

RECURSIVE TrimRight(_)
TrimRight(s) ==
  IF Len(s) > 0 /\ s[Len(s)] \in Spaces THEN TrimRight(SubSeq(s, 1, Len(s) - 1)) ELSE s

TrimSpace(s) == TrimRight(TrimLeft(s))

\* path.IsAbs, filepath.IsAbs on a Unix host (lines 237, 265)
IsAbs(p) == Len(p) > 0 /\ p[1] = "/"

\* fmt's %v of an integer
RECURSIVE NatToText(_)
NatToText(n) ==
  LET d == CHOOSE c \in Digits :
             c = <<"0", "1", "2", "3", "4", "5", "6", "7", "8", "9">>[(n % 10) + 1]
  IN  IF n < 10 THEN <<d>> ELSE Append(NatToText(n \div 10), d)

Itoa(n) == IF n < 0 THEN <<"-">> \o NatToText(0 - n) ELSE NatToText(n)

(***************************************************************************)
(* The validity predicates of the semantic checkers.                       *)
(***************************************************************************)
envValid(env) ==
  LET items == Split(env, "=")
  IN  IF Len(items) < 2 THEN FALSE
      ELSE \A ch \in Range(TrimSpace(items[1])) :
             IsDigit(ch) \/ IsLetter(ch) \/ ch = "_"

defaultRlimits ==
  <<"RLIMIT_CPU", "RLIMIT_FSIZE", "RLIMIT_DATA", "RLIMIT_STACK", "RLIMIT_CORE",
    "RLIMIT_RSS", "RLIMIT_NPROC", "RLIMIT_NOFILE", "RLIMIT_MEMLOCK", "RLIMIT_AS",
    "RLIMIT_LOCKS", "RLIMIT_SIGPENDING", "RLIMIT_MSGQUEUE", "RLIMIT_NICE",
    "RLIMIT_RTPRIO", "RLIMIT_RTTIME">>

\* The capability allow-list is declared in another file of the repository.
defaultCaps == <<"CAP_CHOWN", "CAP_KILL", "CAP_NET_BIND_SERVICE", "CAP_SYS_ADMIN">>

capValid(capability) == \E i \in 1..Len(defaultCaps) : defaultCaps[i] = capability

rlimitValid(rlimit) == \E i \in 1..Len(defaultRlimits) : defaultRlimits[i] = rlimit

\* rspec.PIDNamespace ... rspec.UserNamespace
NamespaceTypes == {"pid", "network", "mount", "ipc", "uts", "user"}
UTSNamespace == "uts"

\* A plausible slip: the uts case left out of the switch.
namespaceValidNoUTS(ns) == ns.Type \in (NamespaceTypes \ {UTSNamespace})

namespaceValid(ns) == ns.Type \in NamespaceTypes

deviceValid(d) ==
  CASE d.Type = "b" -> TRUE
    [] d.Type = "c" -> TRUE
    [] d.Type = "u" -> ~(d.Major <= 0) /\ ~(d.Minor <= 0)
    [] d.Type = "p" -> ~(d.Major > 0 \/ d.Minor > 0)
    [] OTHER -> FALSE

SeccompActions == {"", "SCMP_ACT_KILL", "SCMP_ACT_TRAP", "SCMP_ACT_ERRNO",
                   "SCMP_ACT_TRACE", "SCMP_ACT_ALLOW"}
SeccompOps == {"SCMP_CMP_NE", "SCMP_CMP_LE", "SCMP_CMP_EQ", "SCMP_CMP_GE",
               "SCMP_CMP_GT", "SCMP_CMP_MASKED_EQ"}
SeccompArchs == {"SCMP_ARCH_X86", "SCMP_ARCH_X86_64", "SCMP_ARCH_X32", "SCMP_ARCH_ARM",
                 "SCMP_ARCH_AARCH64", "SCMP_ARCH_MIPS", "SCMP_ARCH_MIPS64",
                 "SCMP_ARCH_MIPS64N32", "SCMP_ARCH_MIPSEL", "SCMP_ARCH_MIPSEL64",
                 "SCMP_ARCH_MIPSEL64N32"}

seccompActionValid(secc) == secc \in SeccompActions

syscallValid(s) ==
  /\ seccompActionValid(s.Action)
  /\ \A i \in 1..Len(s.Args) : s.Args[i].Op \in SeccompOps

(***************************************************************************)
(* The host and the bundle's root filesystem, as os.Stat sees them.        *)
(***************************************************************************)
HostExecutables == {<<"/", "x">>, <<"x">>}
HostNonExecutables == {<<"/", "n">>}
RootfsProfiles == {"docker-default"}

\* os.Stat(hook.Path) (line 242): err, and fi.Mode()&0111 when err is nil
StatHost(p) ==
  IF p \in HostExecutables THEN [err |-> FALSE, exec |-> TRUE]
  ELSE IF p \in HostNonExecutables THEN [err |-> FALSE, exec |-> FALSE]
  ELSE [err |-> TRUE, exec |-> FALSE]

\* os.Stat(path.Join(rootfs, "/etc/apparmor.d", profile)) (lines 289-290)
StatProfileFails(rootfs, profile) == profile \notin RootfsProfiles

(***************************************************************************)
(* The semantic checkers.  Each returns [errs, panicked]: the errors it    *)
(* returns, or panicked = TRUE when it never returns (errs is then what it *)
(* had collected in its local slice).                                      *)
(***************************************************************************)
Returned(errs) == [errs |-> errs, panicked |-> FALSE]

checkSemVer(spec) ==
  LET parts == Split(spec.Version, ".")
      ok == Len(parts) = 3 /\ \A i \in 1..3 : \A ch \in Range(parts[i]) : ch \in Digits
  IN  IF ~ok THEN <<Err("%q is not a valid version format, please read 'SemVer v2.0.0'",
                        spec.Version)>>
      ELSE <<>>

validCombins ==
  [darwin    |-> <<"386", "amd64", "arm", "arm64">>,
   dragonfly |-> <<"amd64">>,
   freebsd   |-> <<"386", "amd64", "arm">>,
   linux     |-> <<"386", "amd64", "arm", "arm64", "ppc64", "ppc64le", "mips64", "mips64le">>,
   netbsd    |-> <<"386", "amd64", "arm">>,
   openbsd   |-> <<"386", "amd64", "arm">>,
   plan9     |-> <<"386", "amd64">>,
   solaris   |-> <<"amd64">>,
   windows   |-> <<"386", "amd64">>]

\* A plausible slip: a known OS is accepted whatever the architecture.
RECURSIVE checkPlatformAnyArch(_, _)
checkPlatformAnyArch(spec, order) ==
  IF Len(order) = 0
  THEN <<Err("Operation system %q of the bundle is not supported yet.", <<spec.Platform.OS>>)>>
  ELSE IF Head(order) = spec.Platform.OS THEN <<>>
  ELSE checkPlatformAnyArch(spec, Tail(order))

\* A plausible slip: the verdict is taken on the first key the range visits.
checkPlatformFirstKey(spec, order) ==
  LET platform == spec.Platform
  IN  IF Len(order) > 0 /\ Head(order) = platform.OS
      THEN IF \E i \in 1..Len(validCombins[platform.OS]) :
                validCombins[platform.OS][i] = platform.Arch
           THEN <<>>
           ELSE <<Err("Combination of %q and %q is invalid.", <<platform.OS, platform.Arch>>)>>
      ELSE <<Err("Operation system %q of the bundle is not supported yet.", <<platform.OS>>)>>

\* order: the keys of validCombins in the order the range statement visits them
RECURSIVE checkPlatform(_, _)
checkPlatform(spec, order) ==
  LET platform == spec.Platform
  IN  IF Len(order) = 0
      THEN <<Err("Operation system %q of the bundle is not supported yet.", <<platform.OS>>)>>
      ELSE IF Head(order) = platform.OS
      THEN IF \E i \in 1..Len(validCombins[Head(order)]) :
                validCombins[Head(order)][i] = platform.Arch
           THEN <<>>
           ELSE <<Err("Combination of %q and %q is invalid.", <<platform.OS, platform.Arch>>)>>
      ELSE checkPlatform(spec, Tail(order))

hookEnvErrs(hook) ==
  LET bad == SelectSeq(hook.Env, LAMBDA env : ~envValid(env))
  IN  [i \in 1..Len(bad) |->
         Err("Env %q for hook %v is in the invalid form.", bad[i] \o <<"|">> \o hook.Path)]

\* One iteration of the loop of checkEventHooks (lines 237-255).
hookErrs(hookType, hook, hooksCheck) ==
  LET abs == IF ~IsAbs(hook.Path)
             THEN <<Err("The %s hook %v: is not absolute path", <<hookType>> \o hook.Path)>>
             ELSE <<>>
      st == StatHost(hook.Path)
      found == IF hooksCheck /\ st.err
               THEN <<Err("Cannot find %s hook: %v", <<hookType>> \o hook.Path)>>
               ELSE <<>>
      \* fi is nil when err is not: fi.Mode() panics
      panics == hooksCheck /\ st.err
      exec == IF hooksCheck /\ ~st.err /\ ~st.exec
              THEN <<Err("The %s hook %v: is not executable", <<hookType>> \o hook.Path)>>
              ELSE <<>>
  IN  IF panics THEN [errs |-> abs \o found, panicked |-> TRUE]
      ELSE Returned(abs \o exec \o hookEnvErrs(hook))

RECURSIVE checkEventHooks(_, _, _)
checkEventHooks(hookType, hooks, hooksCheck) ==
  IF Len(hooks) = 0 THEN Returned(<<>>)
  ELSE LET first == hookErrs(hookType, Head(hooks), hooksCheck)
       IN  IF first.panicked THEN first
           ELSE LET rest == checkEventHooks(hookType, Tail(hooks), hooksCheck)
                IN  [errs |-> first.errs \o rest.errs, panicked |-> rest.panicked]

checkHooks(spec, hooksCheck) ==
  LET hooks == spec.Hooks
      pre == checkEventHooks("pre-start", hooks.Prestart, hooksCheck)
      post == checkEventHooks("post-start", hooks.Poststart, hooksCheck)
      stop == checkEventHooks("post-stop", hooks.Poststop, hooksCheck)
  IN  IF pre.panicked THEN pre
      ELSE IF post.panicked THEN [errs |-> pre.errs \o post.errs, panicked |-> TRUE]
      ELSE [errs |-> pre.errs \o post.errs \o stop.errs, panicked |-> stop.panicked]

checkProcess(spec, rootfs) ==
  LET process == spec.Process
      cwd == IF ~IsAbs(process.Cwd)
             THEN <<Err("cwd %q is not an absolute path", process.Cwd)>> ELSE <<>>
      badEnv == SelectSeq(process.Env, LAMBDA env : ~envValid(env))
      env == [i \in 1..Len(badEnv) |->
                Err("env %q should be in the form of 'key=value'.", badEnv[i])]
      badCap == SelectSeq(process.Capabilities, LAMBDA c : ~capValid(c))
      cap == [i \in 1..Len(badCap) |->
                Err("capability %q is not valid, man capabilities(7)", <<badCap[i]>>)]
      badRl == SelectSeq(process.Rlimits, LAMBDA r : ~rlimitValid(r.Type))
      rl == [i \in 1..Len(badRl) |-> Err("rlimit type %q is invalid.", <<badRl[i].Type>>)]
      aa == IF process.ApparmorProfile # "" /\ StatProfileFails(rootfs, process.ApparmorProfile)
            THEN <<Err("stat %v: no such file or directory",
                       <<rootfs, "/etc/apparmor.d", process.ApparmorProfile>>)>>
            ELSE <<>>
  IN  cwd \o env \o cap \o rl \o aa

checkSeccomp(s) ==
  LET def == IF ~seccompActionValid(s.DefaultAction)
             THEN <<Err("seccomp defaultAction %q is invalid.", <<s.DefaultAction>>)>>
             ELSE <<>>
      badSys == SelectSeq(s.Syscalls, LAMBDA c : ~syscallValid(c))
      sys == [i \in 1..Len(badSys) |->
                Err("syscall %v is invalid.", <<badSys[i].Name, badSys[i].Action>>)]
      badArch == SelectSeq(s.Architectures, LAMBDA a : a \notin SeccompArchs)
      arch == [i \in 1..Len(badArch) |->
                 Err("seccomp architecture %q is invalid", <<badArch[i]>>)]
  IN  def \o sys \o arch

\* The namespace loop of checkLinux (lines 315-321): its errors and utsExists.
RECURSIVE namespaceLoop(_)
namespaceLoop(namespaces) ==
  IF Len(namespaces) = 0 THEN [errs |-> <<>>, utsExists |-> FALSE]
  ELSE LET ns == Head(namespaces)
           rest == namespaceLoop(Tail(namespaces))
       IN  IF ~namespaceValid(ns)
           THEN [errs |-> <<Err("namespace %v is invalid.", <<ns.Type, ns.Path>>)>> \o rest.errs,
                 utsExists |-> rest.utsExists]
           ELSE IF ns.Type = UTSNamespace
           THEN [errs |-> rest.errs, utsExists |-> TRUE]
           ELSE rest

RootfsPropagations == {"", "private", "rprivate", "slave", "rslave", "shared", "rshared"}

HostnameErr == Err("On Linux, hostname requires a new UTS namespace to be specified as well", <<>>)

checkLinux(spec) ==
  LET uid == IF Len(spec.Linux.UIDMappings) > 5
             THEN <<Err("Only 5 UID mappings are allowed (linux kernel restriction).", <<>>)>>
             ELSE <<>>
      gid == IF Len(spec.Linux.GIDMappings) > 5
             THEN <<Err("Only 5 GID mappings are allowed (linux kernel restriction).", <<>>)>>
             ELSE <<>>
      nss == namespaceLoop(spec.Linux.Namespaces)
      host == IF spec.Platform.OS = "linux" /\ ~nss.utsExists /\ Len(spec.Hostname) # 0
              THEN <<HostnameErr>> ELSE <<>>
      badDev == SelectSeq(spec.Linux.Devices, LAMBDA d : ~deviceValid(d))
      dev == [i \in 1..Len(badDev) |->
                Err("device %v is invalid.",
                    <<badDev[i].Path, badDev[i].Type>> \o Itoa(badDev[i].Major)
                       \o <<" ">> \o Itoa(badDev[i].Minor))]
      sec == IF Len(spec.Linux.Seccomp) # 0 THEN checkSeccomp(spec.Linux.Seccomp[1]) ELSE <<>>
      prop == IF spec.Linux.RootfsPropagation \notin RootfsPropagations
              THEN <<Err("rootfsPropagation must be empty or one of private|rprivate|slave|rslave|shared|rshared", <<>>)>>
              ELSE <<>>
  IN  uid \o gid \o nss.errs \o host \o dev \o sec \o prop

(***************************************************************************)
(* Types as reflection sees them.  A type is [kind, name, elem]: kind is   *)
(* the reflect.Kind ("String" and "Text" are both reflect.String, "Other"  *)
(* is any kind the walker ignores), name the struct's name, elem the       *)
(* element type of a pointer, slice or map (a sequence of length 0 or 1).  *)
(* A struct field is [Name, Type, Tag]: Tag is the json tag, split at ",". *)
(***************************************************************************)
TString == [kind |-> "String", name |-> "", elem |-> <<>>]
TText == [kind |-> "String", name |-> "text", elem |-> <<>>]
TOther == [kind |-> "Other", name |-> "", elem |-> <<>>]
TStruct(n) == [kind |-> "Struct", name |-> n, elem |-> <<>>]
TPtr(t) == [kind |-> "Ptr", name |-> "", elem |-> <<t>>]
TSlice(t) == [kind |-> "Slice", name |-> "", elem |-> <<t>>]
TMap(t) == [kind |-> "Map", name |-> "", elem |-> <<t>>]

Fld(n, t, tag) == [Name |-> n, Type |-> t, Tag |-> tag]

\* The fields of rspec.Spec and of the records below it that the checkers read,
\* with the json tags of specs-go.
DocumentFields(n) ==
  CASE n = "Spec" ->
         <<Fld("Version", TText, <<"ociVersion">>),
           Fld("Platform", TStruct("Platform"), <<"platform">>),
           Fld("Process", TStruct("Process"), <<"process">>),
           Fld("Root", TStruct("Root"), <<"root">>),
           Fld("Hostname", TText, <<"hostname", "omitempty">>),
           Fld("Hooks", TStruct("Hooks"), <<"hooks">>),
           Fld("Annotations", TMap(TString), <<"annotations", "omitempty">>),
           Fld("Linux", TStruct("Linux"), <<"linux">>)>>
    [] n = "Platform" ->
         <<Fld("OS", TString, <<"os">>), Fld("Arch", TString, <<"arch">>)>>
    [] n = "Process" ->
         <<Fld("Cwd", TText, <<"cwd">>),
           Fld("Env", TSlice(TText), <<"env", "omitempty">>),
           Fld("Capabilities", TSlice(TString), <<"capabilities", "omitempty">>),
           Fld("Rlimits", TSlice(TStruct("Rlimit")), <<"rlimits", "omitempty">>),
           Fld("ApparmorProfile", TString, <<"apparmorProfile", "omitempty">>)>>
    [] n = "Rlimit" -> <<Fld("Type", TString, <<"type">>)>>
    [] n = "Root" -> <<Fld("Path", TString, <<"path">>)>>
    [] n = "Hooks" ->
         <<Fld("Prestart", TSlice(TStruct("Hook")), <<"prestart", "omitempty">>),
           Fld("Poststart", TSlice(TStruct("Hook")), <<"poststart", "omitempty">>),
           Fld("Poststop", TSlice(TStruct("Hook")), <<"poststop", "omitempty">>)>>
    [] n = "Hook" ->
         <<Fld("Path", TText, <<"path">>),
           Fld("Env", TSlice(TText), <<"env", "omitempty">>)>>
    [] n = "Linux" ->
         <<Fld("UIDMappings", TSlice(TStruct("IDMapping")), <<"uidMappings", "omitempty">>),
           Fld("GIDMappings", TSlice(TStruct("IDMapping")), <<"gidMappings", "omitempty">>),
           Fld("Namespaces", TSlice(TStruct("Namespace")), <<"namespaces">>),
           Fld("Devices", TSlice(TStruct("Device")), <<"devices">>),
           Fld("Seccomp", TPtr(TStruct("Seccomp")), <<"seccomp", "omitempty">>),
           Fld("RootfsPropagation", TString, <<"rootfsPropagation", "omitempty">>)>>
    [] n = "IDMapping" -> <<Fld("Size", TOther, <<"size">>)>>
    [] n = "Namespace" ->
         <<Fld("Type", TString, <<"type">>), Fld("Path", TString, <<"path", "omitempty">>)>>
    [] n = "Device" ->
         <<Fld("Path", TString, <<"path">>), Fld("Type", TString, <<"type">>),
           Fld("Major", TOther, <<"major">>), Fld("Minor", TOther, <<"minor">>)>>
    [] n = "Seccomp" ->
         <<Fld("DefaultAction", TString, <<"defaultAction">>),
           Fld("Architectures", TSlice(TString), <<"architectures">>),
           Fld("Syscalls", TSlice(TStruct("Syscall")), <<"syscalls", "omitempty">>)>>
    [] n = "Syscall" ->
         <<Fld("Name", TString, <<"name">>), Fld("Action", TString, <<"action">>),
           Fld("Args", TSlice(TStruct("Arg")), <<"args", "omitempty">>)>>
    [] n = "Arg" -> <<Fld("Op", TString, <<"op">>)>>

\* Records that exercise every shape the walker distinguishes: the argument of
\* checkMandatory is an interface{} of any type.
ShapeFields(n) ==
  CASE n = "Outer" ->
         <<Fld("S", TString, <<"s">>),
           Fld("O", TString, <<"o", "omitempty">>),
           Fld("P", TPtr(TOther), <<"p">>),
           Fld("L", TSlice(TStruct("Elem")), <<"l">>),
           Fld("M", TMap(TStruct("Pair")), <<"m">>),
           Fld("In", TStruct("Inner"), <<"in">>),
           Fld("Pn", TPtr(TStruct("Inner")), <<"pn">>),
           Fld("Po", TPtr(TStruct("Inner")), <<"po", "omitempty">>)>>
    [] n = "Inner" ->
         <<Fld("A", TString, <<"a">>), Fld("N", TSlice(TString), <<"n">>)>>
    [] n = "Elem" ->
         <<Fld("Name", TString, <<"name">>), Fld("Note", TString, <<"note", "omitempty">>)>>
    [] n = "Pair" ->
         <<Fld("A", TString, <<"a">>), Fld("B", TString, <<"b">>)>>

ShapeNames == {"Outer", "Inner", "Elem", "Pair"}

\* reflect.Type.NumField / Field(i)
StructFields(n) == IF n \in ShapeNames THEN ShapeFields(n) ELSE DocumentFields(n)

(***************************************************************************)
(* The generic mandatory-field walker.                                     *)
(***************************************************************************)
isStruct(t) == t.kind = "Struct"

isStructPtr(t) == t.kind = "Ptr" /\ t.elem[1].kind = "Struct"

\* !strings.Contains(tag, "omitempty")
IsMandatory(tagField) == "omitempty" \notin Range(tagField.Tag)

\* reflect.Value.Len of a string
StringLen(t, v) == IF t.name = "text" THEN Len(v) ELSE IF v = "" THEN 0 ELSE 1

\* reflect.Value.MapKeys: the keys present, in the order keyOrder gives them
MapKeys(m, keyOrder) == SelectSeq(keyOrder, LAMBDA k : k \in DOMAIN m)

RECURSIVE checkMandatory(_, _, _)
RECURSIVE checkMandatoryUnit(_, _, _, _)

\* A plausible slip: the walk of a slice stops at the first element.
checkMandatoryUnitFirstElem(field, tagField, parent, keyOrder) ==
  LET mandatory == IsMandatory(tagField)
      t == tagField.Type
      missing == <<Err("'%s.%s' should not be empty.", <<parent, tagField.Name>>)>>
  IN  CASE t.kind = "Ptr" -> IF mandatory /\ Len(field) = 0 THEN missing ELSE <<>>
        [] t.kind = "String" -> IF mandatory /\ StringLen(t, field) = 0 THEN missing ELSE <<>>
        [] t.kind = "Slice" ->
             IF mandatory /\ Len(field) = 0 THEN missing
             ELSE IF Len(field) = 0 THEN <<>>
             ELSE checkMandatory(t.elem[1], field[1], keyOrder)
        [] t.kind = "Map" ->
             IF mandatory /\ DOMAIN field = {} THEN missing
             ELSE LET keys == MapKeys(field, keyOrder)
                  IN  Flatten([i \in 1..Len(keys) |->
                                 checkMandatory(t.elem[1], field[keys[i]], keyOrder)])
        [] OTHER -> <<>>

checkMandatoryUnit(field, tagField, parent, keyOrder) ==
  LET mandatory == IsMandatory(tagField)
      t == tagField.Type
      missing == <<Err("'%s.%s' should not be empty.", <<parent, tagField.Name>>)>>
  IN  CASE t.kind = "Ptr" -> IF mandatory /\ Len(field) = 0 THEN missing ELSE <<>>
        [] t.kind = "String" -> IF mandatory /\ StringLen(t, field) = 0 THEN missing ELSE <<>>
        [] t.kind = "Slice" ->
             IF mandatory /\ Len(field) = 0 THEN missing
             ELSE Flatten([i \in 1..Len(field) |->
                             checkMandatory(t.elem[1], field[i], keyOrder)])
        [] t.kind = "Map" ->
             IF mandatory /\ DOMAIN field = {} THEN missing
             ELSE LET keys == MapKeys(field, keyOrder)
                  IN  Flatten([i \in 1..Len(keys) |->
                                 checkMandatory(t.elem[1], field[keys[i]], keyOrder)])
        [] OTHER -> <<>>

\* objT, obj: reflect.TypeOf(obj), reflect.ValueOf(obj)
checkMandatory(objT, obj, keyOrder) ==
  IF ~isStructPtr(objT) /\ ~isStruct(objT) THEN <<>>
  ELSE LET T == IF isStructPtr(objT) THEN objT.elem[1] ELSE objT
           V == IF isStructPtr(objT) THEN obj[1] ELSE obj
           fields == StructFields(T.name)
           one(i) ==
             LET t == fields[i].Type
                 fv == V[fields[i].Name]
             IN  IF isStructPtr(t) /\ Len(fv) = 0
                 THEN IF IsMandatory(fields[i])
                      THEN <<Err("'%s.%s' should not be empty", <<T.name, fields[i].Name>>)>>
                      ELSE <<>>
                 ELSE IF isStruct(t) \/ isStructPtr(t)
                 THEN checkMandatory(t, fv, keyOrder)
                 ELSE checkMandatoryUnit(fv, fields[i], T.name, keyOrder)
       IN  Flatten([i \in 1..Len(fields) |-> one(i)])

checkMandatoryFields(spec, keyOrder) == checkMandatory(TStruct("Spec"), spec, keyOrder)

(***************************************************************************)
(* The documents the model loads.                                          *)
(***************************************************************************)
\* var spec rspec.Spec (line 146): the zero value
ZeroSpec ==
  [Version |-> <<>>,
   Platform |-> [OS |-> "", Arch |-> ""],
   Process |-> [Cwd |-> <<>>, Env |-> <<>>, Capabilities |-> <<>>, Rlimits |-> <<>>,
                ApparmorProfile |-> ""],
   Root |-> [Path |-> ""],
   Hostname |-> <<>>,
   Hooks |-> [Prestart |-> <<>>, Poststart |-> <<>>, Poststop |-> <<>>],
   Annotations |-> <<>>,
   Linux |-> [UIDMappings |-> <<>>, GIDMappings |-> <<>>, Namespaces |-> <<>>,
              Devices |-> <<>>, Seccomp |-> <<>>, RootfsPropagation |-> ""]]

\* A document with every required field set and no semantic violation.
BaseSpec ==
  [Version |-> <<"1", ".", "0", ".", "0">>,
   Platform |-> [OS |-> "linux", Arch |-> "amd64"],
   Process |-> [Cwd |-> <<"/">>, Env |-> <<>>, Capabilities |-> <<>>, Rlimits |-> <<>>,
                ApparmorProfile |-> ""],
   Root |-> [Path |-> "rootfs"],
   Hostname |-> <<>>,
   Hooks |-> [Prestart |-> <<>>, Poststart |-> <<>>, Poststop |-> <<>>],
   Annotations |-> <<>>,
   Linux |-> [UIDMappings |-> <<>>, GIDMappings |-> <<>>,
              Namespaces |-> <<[Type |-> "pid", Path |-> ""]>>,
              Devices |-> <<[Path |-> "/dev/null", Type |-> "c", Major |-> 1, Minor |-> 3]>>,
              Seccomp |-> <<>>, RootfsPropagation |-> ""]]

EnvAlphabet == {"A", "1", "_", " ", "=", "-"}
EnvStrings == SeqsUpTo(EnvAlphabet, MaxEnvLen)
EnvSamples == {<<"A", "=", "1">>, <<"=", "1">>, <<"A">>, <<"-", "=">>}

ExecHook(env) == [Path |-> <<"/", "x">>, Env |-> env]

EnvDocs ==
  {[BaseSpec EXCEPT !.Process.Env = <<e>>, !.Hooks.Prestart = <<ExecHook(<<e>>)>>] :
     e \in EnvStrings}
  \cup {[BaseSpec EXCEPT !.Process.Env = <<e1, e2>>, !.Hooks.Poststop = <<ExecHook(<<e2, e1>>)>>] :
          e1 \in EnvSamples, e2 \in EnvSamples}

DeviceTypes == {"b", "c", "u", "p", "x", ""}
Numbers == (0 - MaxNumber)..MaxNumber
DeviceValues ==
  {[Path |-> "/dev/d", Type |-> t, Major |-> ma, Minor |-> mi] :
     t \in DeviceTypes, ma \in Numbers, mi \in Numbers}
DeviceSamples ==
  {[Path |-> "/dev/d", Type |-> t, Major |-> n, Minor |-> n] : t \in {"c", "u", "p"}, n \in {0, 1}}

DeviceDocs ==
  {[BaseSpec EXCEPT !.Linux.Devices = <<d>>] : d \in DeviceValues}
  \cup {[BaseSpec EXCEPT !.Linux.Devices = <<d1, d2>>] : d1 \in DeviceSamples, d2 \in DeviceSamples}
  \cup {[BaseSpec EXCEPT !.Linux.Devices = <<>>]}

NamespaceValues == {[Type |-> t, Path |-> ""] : t \in {"pid", "uts", "bogus"}}

NamespaceDocs ==
  {[BaseSpec EXCEPT !.Linux.Namespaces = ns, !.Hostname = h, !.Platform.OS = os] :
     ns \in SeqsUpTo(NamespaceValues, MaxNamespaces),
     h \in {<<>>, <<"h">>},
     os \in {"linux", "darwin"}}

OSNames == DOMAIN validCombins \cup {"aix", ""}
ArchNames == UNION {Range(validCombins[os]) : os \in DOMAIN validCombins} \cup {"sparc", ""}

PlatformDocs ==
  {[BaseSpec EXCEPT !.Platform = [OS |-> os, Arch |-> arch]] : os \in OSNames, arch \in ArchNames}

HookValues ==
  {[Path |-> p, Env |-> <<>>] : p \in {<<"/", "x">>, <<"/", "n">>, <<"/", "m">>, <<"r">>, <<"x">>}}
  \cup {ExecHook(<<<<"=">>, <<"A">>>>)}
HookTails ==
  {<<<<>>, <<>>>>,
   <<<<[Path |-> <<"/", "m">>, Env |-> <<>>]>>, <<ExecHook(<<<<"-", "=">>>>)>>>>,
   <<<<[Path |-> <<"r">>, Env |-> <<>>]>>, <<[Path |-> <<"/", "m">>, Env |-> <<>>]>>>>}

HookDocs ==
  {[BaseSpec EXCEPT !.Hooks = [Prestart |-> pre, Poststart |-> tail[1], Poststop |-> tail[2]]] :
     pre \in SeqsUpTo(HookValues, MaxHooks), tail \in HookTails}

ValidSeccomp ==
  [DefaultAction |-> "SCMP_ACT_ALLOW", Architectures |-> <<"SCMP_ARCH_X86">>,
   Syscalls |-> <<[Name |-> "read", Action |-> "SCMP_ACT_KILL",
                   Args |-> <<[Op |-> "SCMP_CMP_EQ"]>>]>>]
BadSeccomp ==
  [DefaultAction |-> "bogus", Architectures |-> <<"SCMP_ARCH_X86", "vax">>,
   Syscalls |-> <<[Name |-> "", Action |-> "SCMP_ACT_KILL", Args |-> <<[Op |-> "bogus"]>>]>>]

MapKeyUniverse == {"k1", "k2"}

MiscDocs ==
  {[BaseSpec EXCEPT !.Version = v, !.Process.Cwd = cwd, !.Process.ApparmorProfile = aa,
                    !.Linux.Seccomp = sec, !.Annotations = an] :
     v \in {<<"1", ".", "0", ".", "0">>, <<"1", ".", "0">>, <<".", ".">>, <<"v", "1", ".", "0", ".", "0">>},
     cwd \in {<<"/">>, <<"x">>},
     aa \in {"", "docker-default", "absent"},
     sec \in {<<>>, <<ValidSeccomp>>, <<BadSeccomp>>},
     an \in {<<>>, [k \in MapKeyUniverse |-> ""]}}
  \cup {[BaseSpec EXCEPT !.Process.Capabilities = c, !.Process.Rlimits = r,
                         !.Linux.RootfsPropagation = rp, !.Linux.UIDMappings = um,
                         !.Linux.GIDMappings = gm] :
          c \in {<<>>, <<"CAP_KILL", "CAP_BOGUS">>},
          r \in {<<>>, <<[Type |-> "RLIMIT_CPU"], [Type |-> "RLIMIT_BOGUS"], [Type |-> ""]>>},
          rp \in {"", "rshared", "bogus"},
          um \in {<<>>, [i \in 1..6 |-> [Size |-> 1]]},
          gm \in {<<>>, [i \in 1..5 |-> [Size |-> 1]]}}
  \cup {[BaseSpec EXCEPT !.Root.Path = p] : p \in {"", "file", "nodir"}}
  \cup {ZeroSpec}

\* What json.Unmarshal can produce from a config.json that parses.
Documents == EnvDocs \cup DeviceDocs \cup NamespaceDocs \cup PlatformDocs \cup HookDocs \cup MiscDocs

(***************************************************************************)
(* The validate command: bundleValidateCommand.Action, step by step.       *)
(***************************************************************************)
VARIABLES
  pc,          \* where the command (or the walker call) stands
  inputPath,   \* context.String("path")
  bundle,      \* what the file system holds at inputPath
  hooksFlag,   \* context.Bool("hooks")
  spec,        \* var spec rspec.Spec
  rootfsPath,  \* path.Join(inputPath, spec.Root.Path)
  hooksCheck,  \* the package variable hooksCheck
  checkIdx,    \* the position of the range over checks
  started,     \* the checkers called, in call order
  completed,   \* the checkers that returned, in return order
  logged,      \* what logrus.Error / Errorf / Fatal wrote, in order
  ret,         \* the local ret
  deferred,    \* the argument the deferred os.Exit was given, once deferred
  exitStatus,  \* the process exit status, once exited
  walkObj,     \* the argument of a direct checkMandatory call
  walkErrs     \* what that call returned

vars == <<pc, inputPath, bundle, hooksFlag, spec, rootfsPath, hooksCheck, checkIdx,
          started, completed, logged, ret, deferred, exitStatus, walkObj, walkErrs>>

checks == <<"checkMandatoryFields", "checkSemVer", "checkPlatform", "checkProcess",
            "checkLinux", "checkHooks">>

\* The orders in which a range over validCombins can visit its keys: the
\* runtime starts anywhere and wraps around.
OSKeys == <<"darwin", "dragonfly", "freebsd", "linux", "netbsd", "openbsd", "plan9",
            "solaris", "windows">>
Reverse(s) == [i \in 1..Len(s) |-> s[Len(s) + 1 - i]]
Rotations(s) == {SubSeq(s, i, Len(s)) \o SubSeq(s, 1, i - 1) : i \in 1..Len(s)}
OSOrders == Rotations(OSKeys) \cup Rotations(Reverse(OSKeys))
KeyOrders == {<<"k1", "k2">>, <<"k2", "k1">>}

\* The iteration orders checker `name` depends on.
RangeOrders(name) ==
  CASE name = "checkMandatoryFields" -> KeyOrders
    [] name = "checkPlatform" -> OSOrders
    [] OTHER -> {<<>>}

\* check(spec, rootfsPath) for the checker `name` (line 172)
RunChecker(name, doc, rootfs, hc, order) ==
  CASE name = "checkMandatoryFields" -> Returned(checkMandatoryFields(doc, order))
    [] name = "checkSemVer" -> Returned(checkSemVer(doc))
    [] name = "checkPlatform" -> Returned(checkPlatform(doc, order))
    [] name = "checkProcess" -> Returned(checkProcess(doc, rootfs))
    [] name = "checkLinux" -> Returned(checkLinux(doc))
    [] name = "checkHooks" -> checkHooks(doc, hc)

\* os.Stat(rootfsPath) (lines 151-156)
RootfsKind(doc) ==
  CASE doc.Root.Path \in {"rootfs", ""} -> "dir"
    [] doc.Root.Path = "file" -> "file"
    [] OTHER -> "missing"

Init ==
  /\ pc = "path"
  /\ inputPath \in {"", "nowhere", "bundle"}
  /\ bundle \in [readable : BOOLEAN, badUTF8 : BOOLEAN, json : BOOLEAN]
  /\ hooksFlag \in BOOLEAN
  /\ spec = ZeroSpec
  /\ rootfsPath = ""
  /\ hooksCheck = FALSE
  /\ checkIdx = 1
  /\ started = <<>>
  /\ completed = <<>>
  /\ logged = <<>>
  /\ ret = 0
  /\ deferred = <<>>
  /\ exitStatus = <<>>
  /\ walkObj = <<>>
  /\ walkErrs = <<>>

\* logrus.Fatal: log, then os.Exit(1)
Fatal(e) ==
  /\ logged' = Append(logged, e)
  /\ exitStatus' = <<1>>
  /\ pc' = "exited"

\* lines 129-132
GetPath ==
  /\ pc = "path"
  /\ logged' = IF inputPath = "" THEN Append(logged, Err("Bundle path shouldn't be empty", <<>>))
               ELSE logged
  /\ pc' = "stat"
  /\ UNCHANGED <<inputPath, bundle, hooksFlag, spec, rootfsPath, hooksCheck, checkIdx,
                 started, completed, ret, deferred, exitStatus, walkObj, walkErrs>>

\* lines 134-136
StatPath ==
  /\ pc = "stat"
  /\ IF inputPath # "bundle"
     THEN Fatal(Err("stat %v: no such file or directory", <<inputPath>>))
     ELSE pc' = "read" /\ UNCHANGED <<logged, exitStatus>>
  /\ UNCHANGED <<inputPath, bundle, hooksFlag, spec, rootfsPath, hooksCheck, checkIdx,
                 started, completed, ret, deferred, walkObj, walkErrs>>

\* lines 138-142
ReadConfig ==
  /\ pc = "read"
  /\ IF ~bundle.readable
     THEN Fatal(Err("open %v: no such file or directory", <<inputPath, "config.json">>))
     ELSE pc' = "utf8" /\ UNCHANGED <<logged, exitStatus>>
  /\ UNCHANGED <<inputPath, bundle, hooksFlag, spec, rootfsPath, hooksCheck, checkIdx,
                 started, completed, ret, deferred, walkObj, walkErrs>>

\* lines 143-145
CheckUTF8 ==
  /\ pc = "utf8"
  /\ logged' = IF bundle.badUTF8
               THEN Append(logged, Err("%q is not encoded in UTF-8", <<inputPath, "config.json">>))
               ELSE logged
  /\ pc' = "parse"
  /\ UNCHANGED <<inputPath, bundle, hooksFlag, spec, rootfsPath, hooksCheck, checkIdx,
                 started, completed, ret, deferred, exitStatus, walkObj, walkErrs>>

\* lines 146-149: json.Unmarshal replaces invalid UTF-8 inside a string by
\* U+FFFD and reports no error, so bundle.json does not depend on bundle.badUTF8
Unmarshal ==
  /\ pc = "parse"
  /\ IF ~bundle.json
     THEN Fatal(Err("invalid character", <<>>)) /\ UNCHANGED spec
     ELSE /\ \E doc \in Documents : spec' = doc
          /\ pc' = "rootfs"
          /\ UNCHANGED <<logged, exitStatus>>
  /\ UNCHANGED <<inputPath, bundle, hooksFlag, rootfsPath, hooksCheck, checkIdx,
                 started, completed, ret, deferred, walkObj, walkErrs>>

\* lines 151-156
StatRootfs ==
  /\ pc = "rootfs"
  /\ rootfsPath' = spec.Root.Path   \* below inputPath
  /\ CASE RootfsKind(spec) = "missing" ->
            Fatal(Err("Cannot find the root path %q", <<inputPath, spec.Root.Path>>))
       [] RootfsKind(spec) = "file" ->
            Fatal(Err("The root path %q is not a directory.", <<inputPath, spec.Root.Path>>))
       [] OTHER -> pc' = "defer" /\ UNCHANGED <<logged, exitStatus>>
  /\ UNCHANGED <<inputPath, bundle, hooksFlag, spec, hooksCheck, checkIdx,
                 started, completed, ret, deferred, walkObj, walkErrs>>

\* lines 158-170: `defer os.Exit(ret)` evaluates ret when the defer statement
\* executes
SetUp ==
  /\ pc = "defer"
  /\ hooksCheck' = hooksFlag
  /\ ret' = 0
  /\ deferred' = <<ret'>>
  /\ checkIdx' = 1
  /\ pc' = "checks"
  /\ UNCHANGED <<inputPath, bundle, hooksFlag, spec, rootfsPath, started, completed,
                 logged, exitStatus, walkObj, walkErrs>>

\* lines 171-176: one iteration of the range over checks.  A checker that
\* panics unwinds Action; the deferred os.Exit then ends the process.
RunCheck ==
  /\ pc = "checks"
  /\ checkIdx <= Len(checks)
  /\ \E order \in RangeOrders(checks[checkIdx]) :
       LET out == RunChecker(checks[checkIdx], spec, rootfsPath, hooksCheck, order)
       IN  /\ started' = Append(started, checks[checkIdx])
           /\ IF out.panicked
              THEN /\ exitStatus' = deferred
                   /\ pc' = "exited"
                   /\ UNCHANGED <<completed, logged, ret, checkIdx>>
              ELSE /\ completed' = Append(completed, checks[checkIdx])
                   /\ logged' = logged \o out.errs
                   /\ ret' = IF Len(out.errs) > 0 THEN 1 ELSE ret
                   /\ checkIdx' = checkIdx + 1
                   /\ UNCHANGED <<pc, exitStatus>>
  /\ UNCHANGED <<inputPath, bundle, hooksFlag, spec, rootfsPath, hooksCheck, deferred,
                 walkObj, walkErrs>>

\* lines 178-181: Action returns and the deferred os.Exit runs
Finish ==
  /\ pc = "checks"
  /\ checkIdx > Len(checks)
  /\ exitStatus' = deferred
  /\ pc' = "exited"
  /\ UNCHANGED <<inputPath, bundle, hooksFlag, spec, rootfsPath, hooksCheck, checkIdx,
                 started, completed, logged, ret, deferred, walkObj, walkErrs>>

Next ==
  \/ GetPath
  \/ StatPath
  \/ ReadConfig
  \/ CheckUTF8
  \/ Unmarshal
  \/ StatRootfs
  \/ SetUp
  \/ RunCheck
  \/ Finish

Spec == Init /\ [][Next]_vars

(***************************************************************************)
(* A direct call of the walker on a value of any shape.                    *)
(***************************************************************************)
ElemValues == [Name : {"", "n"}, Note : {""}]
InnerValues == [A : {"", "a"}, N : {<<>>, <<"s">>}]
PairValues == {[A |-> "a", B |-> "b"], [A |-> "", B |-> "b"], [A |-> "a", B |-> ""]}
MapValues ==
  UNION {[K -> PairValues] : K \in SUBSET MapKeyUniverse}
OuterValues ==
  [S : {"", "s"}, O : {"", "o"}, P : {<<>>, <<7>>},
   L : SeqsUpTo(ElemValues, MaxElems),
   M : MapValues,
   In : InnerValues,
   Pn : {<<>>, <<[A |-> "", N |-> <<>>]>>},
   Po : {<<>>, <<[A |-> "", N |-> <<"s">>]>>}]

InitWalk ==
  /\ pc = "walk"
  /\ walkObj \in OuterValues
  /\ walkErrs = <<>>
  /\ inputPath = ""
  /\ bundle = [readable |-> FALSE, badUTF8 |-> FALSE, json |-> FALSE]
  /\ hooksFlag = FALSE
  /\ spec = ZeroSpec
  /\ rootfsPath = ""
  /\ hooksCheck = FALSE
  /\ checkIdx = 1
  /\ started = <<>>
  /\ completed = <<>>
  /\ logged = <<>>
  /\ ret = 0
  /\ deferred = <<>>
  /\ exitStatus = <<>>

\* errs = checkMandatory(obj), with the map keys in any order MapKeys may give
Walk ==
  /\ pc = "walk"
  /\ \E keyOrder \in KeyOrders :
       walkErrs' = checkMandatory(TStruct("Outer"), walkObj, keyOrder)
  /\ pc' = "walked"
  /\ UNCHANGED <<inputPath, bundle, hooksFlag, spec, rootfsPath, hooksCheck, checkIdx,
                 started, completed, logged, ret, deferred, exitStatus, walkObj>>

NextWalk == Walk

SpecWalker == InitWalk /\ [][NextWalk]_vars

(***************************************************************************)
(* What the claims speak of.                                               *)
(***************************************************************************)
Count(seq, e) == Len(SelectSeq(seq, LAMBDA x : x = e))

StructuralMsgs ==
  {"Bundle path shouldn't be empty", "stat %v: no such file or directory",
   "open %v: no such file or directory", "%q is not encoded in UTF-8",
   "invalid character", "Cannot find the root path %q",
   "The root path %q is not a directory."}

IsStructural(e) == e.msg \in StructuralMsgs /\ ~(e.msg = "stat %v: no such file or directory" /\ Len(e.args) = 3)

\* The errors the checkers reported, in the order they were logged.
CheckerLog == SelectSeq(logged, LAMBDA e : ~IsStructural(e))

InPipeline == deferred # <<>>

Ran(name) == name \in Range(completed)

\* The errors of the first n checkers, with the map ranges taken in the
\* orders keyOrder and osOrder.
ExpectedLog(n, hc, keyOrder, osOrder) ==
  Flatten([i \in 1..n |->
             RunChecker(checks[i], spec, rootfsPath, hc,
                        CASE checks[i] = "checkMandatoryFields" -> keyOrder
                          [] checks[i] = "checkPlatform" -> osOrder
                          [] OTHER -> <<>>).errs])

AllHooks(doc) ==
  {<<"pre-start", doc.Hooks.Prestart[i]>> : i \in 1..Len(doc.Hooks.Prestart)}
  \cup {<<"post-start", doc.Hooks.Poststart[i]>> : i \in 1..Len(doc.Hooks.Poststart)}
  \cup {<<"post-stop", doc.Hooks.Poststop[i]>> : i \in 1..Len(doc.Hooks.Poststop)}

\* C1: once the command has exited after reaching the pipeline, the six
\* checkers have each been called once and have each returned, in the fixed
\* order; the errors reported are the concatenation of the checkers' errors in
\* that order; and the verdict (ret) is non-compliant exactly when that
\* sequence is not empty.  While it runs, the checkers called are a prefix of
\* the fixed order.
C1_PipelineRunsAllCheckers ==
  /\ started = SubSeq(checks, 1, Len(started))
  /\ (pc = "exited" /\ InPipeline) =>
       /\ started = checks
       /\ completed = checks
       /\ \E keyOrder \in KeyOrders, osOrder \in OSOrders :
            CheckerLog = ExpectedLog(Len(checks), hooksCheck, keyOrder, osOrder)
       /\ (ret # 0) <=> (CheckerLog # <<>>)

\* C2: the exit status of a run that reached the pipeline is zero when no
\* checker returned an error and non-zero when at least one did.
C2_ExitStatusFollowsVerdict ==
  (pc = "exited" /\ InPipeline) =>
    ((exitStatus = <<0>>) <=> (CheckerLog = <<>>))

\* C3: after any structural error has been reported, no checker is called.
C3_StructuralErrorStopsRun ==
  (\E i \in 1..Len(logged) : IsStructural(logged[i])) => started = <<>>

\* C4: with host-side hook verification on, a hook whose path cannot be
\* stat'ed yields an error for that hook and the run goes on: checkHooks
\* returns and every such hook has its error in the reported list.
C4_MissingHookIsReported ==
  (pc = "exited" /\ InPipeline /\ hooksCheck) =>
    /\ completed = checks
    /\ \A h \in AllHooks(spec) :
         StatHost(h[2].Path).err =>
           Err("Cannot find %s hook: %v", <<h[1]>> \o h[2].Path) \in Range(logged)

\* KEY=VALUE with KEY, the text before the first "=", non-empty and made of
\* letters, digits and underscore only.
KeyValueForm(e) ==
  \E i \in 1..Len(e) :
    /\ e[i] = "="
    /\ i > 1
    /\ \A j \in 1..(i - 1) : e[j] \in Letters \cup Digits \cup {"_"}

\* C7: an environment entry is accepted exactly when it has the KEY=VALUE
\* form; the rule is applied to every process entry and every hook entry.
C7_EnvEntryRule ==
  /\ Ran("checkProcess") =>
       \A e \in Range(spec.Process.Env) :
         (Err("env %q should be in the form of 'key=value'.", e) \in Range(logged))
           <=> ~KeyValueForm(e)
  /\ Ran("checkHooks") =>
       \A h \in AllHooks(spec) : \A e \in Range(h[2].Env) :
         (Err("Env %q for hook %v is in the invalid form.", e \o <<"|">> \o h[2].Path)
            \in Range(logged))
           <=> ~KeyValueForm(e)

DeviceAllowed(d) ==
  \/ d.Type \in {"b", "c"}
  \/ d.Type = "u" /\ d.Major > 0 /\ d.Minor > 0
  \/ d.Type = "p" /\ d.Major = 0 /\ d.Minor = 0

DeviceErr(d) ==
  Err("device %v is invalid.", <<d.Path, d.Type>> \o Itoa(d.Major) \o <<" ">> \o Itoa(d.Minor))

\* C8: a device is accepted exactly when its kind is b or c, or u with both
\* numbers strictly positive, or p with both numbers zero; checkLinux reports
\* one error per rejected device.
C8_DeviceRule ==
  Ran("checkLinux") =>
    \A d \in Range(spec.Linux.Devices) :
      Count(logged, DeviceErr(d)) =
        IF DeviceAllowed(d) THEN 0 ELSE Count(spec.Linux.Devices, d)

HasUTS(doc) == \E i \in 1..Len(doc.Linux.Namespaces) : doc.Linux.Namespaces[i].Type = "uts"

\* C9: checkLinux reports the hostname error exactly once when the OS is
\* linux, the hostname is set and no namespace entry has kind uts, and not at
\* all otherwise, wherever the uts entry sits and whatever surrounds it.
C9_HostnameNeedsUTS ==
  Ran("checkLinux") =>
    Count(logged, HostnameErr) =
      IF spec.Platform.OS = "linux" /\ spec.Hostname # <<>> /\ ~HasUTS(spec) THEN 1 ELSE 0

C9_Witness ==
  /\ Ran("checkLinux")
  /\ spec.Platform.OS = "linux"
  /\ spec.Hostname # <<>>
  /\ Len(spec.Linux.Namespaces) = 3
  /\ spec.Linux.Namespaces[1].Type = "bogus"
  /\ spec.Linux.Namespaces[3].Type = "uts"
  /\ Count(logged, HostnameErr) = 0

PlatformMsgs == {"Combination of %q and %q is invalid.",
                 "Operation system %q of the bundle is not supported yet."}

\* C10: checkPlatform returns no error exactly when the (OS, architecture)
\* pair is in the table; otherwise exactly one error, the unsupported-OS error
\* when the OS is not a key and the invalid-combination error when it is.
\* (linux, amd64) is in the table; (linux, sparc) and (aix, amd64) are not.
C10_PlatformRule ==
  /\ "amd64" \in Range(validCombins["linux"])
  /\ "sparc" \notin Range(validCombins["linux"])
  /\ "aix" \notin DOMAIN validCombins
  /\ Ran("checkPlatform") =>
       LET p == spec.Platform
           errs == SelectSeq(logged, LAMBDA e : e.msg \in PlatformMsgs)
       IN  IF p.OS \notin DOMAIN validCombins
           THEN errs = <<Err("Operation system %q of the bundle is not supported yet.", <<p.OS>>)>>
           ELSE IF p.Arch \notin Range(validCombins[p.OS])
           THEN errs = <<Err("Combination of %q and %q is invalid.", <<p.OS, p.Arch>>)>>
           ELSE errs = <<>>

C10_Witness ==
  /\ Ran("checkPlatform")
  /\ spec.Platform = [OS |-> "linux", Arch |-> "sparc"]
  /\ Err("Combination of %q and %q is invalid.", <<"linux", "sparc">>) \in Range(logged)

\* C6: the errors reported do not depend on the order in which the map
\* ranges visit their keys, nor on anything but the document, the root path
\* and the hook-verification flag: whatever orders this run took, its report
\* is the one every other choice of orders gives.  (Each order is read by one
\* checker only, so the orders are varied one checker at a time.)
C6_SameInputsSameReport ==
  (pc = "exited" /\ InPipeline) =>
    /\ CheckerLog = ExpectedLog(Len(completed), hooksFlag, <<"k1", "k2">>, OSKeys)
    /\ Ran("checkMandatoryFields") =>
         \A keyOrder \in KeyOrders :
           checkMandatoryFields(spec, keyOrder) = checkMandatoryFields(spec, <<"k1", "k2">>)
    /\ Ran("checkPlatform") =>
         \A osOrder \in OSOrders : checkPlatform(spec, osOrder) = checkPlatform(spec, OSKeys)

C6_Witness ==
  /\ pc = "exited"
  /\ completed = checks
  /\ DOMAIN spec.Annotations = MapKeyUniverse
  /\ Len(CheckerLog) >= 2

(***************************************************************************)
(* The required fields of a value that are missing, each with the path     *)
(* that leads to it: a nil pointer, an empty string, an empty slice or an  *)
(* empty map in a field not marked omitempty, sought in every record,      *)
(* slice element and map value.                                            *)
(***************************************************************************)
RECURSIVE MissingInStruct(_, _, _)
RECURSIVE MissingInside(_, _, _)

MissingInField(owner, f, fv, path) ==
  LET t == f.Type
      empty == CASE t.kind = "Ptr" -> fv = <<>>
                 [] t.kind = "String" -> StringLen(t, fv) = 0
                 [] t.kind = "Slice" -> Len(fv) = 0
                 [] t.kind = "Map" -> DOMAIN fv = {}
                 [] OTHER -> FALSE
  IN  IF empty
      THEN IF "omitempty" \in Range(f.Tag) THEN {}
           ELSE {[path |-> path, owner |-> owner, field |-> f.Name]}
      ELSE MissingInside(t, fv, path)

MissingInStruct(n, v, path) ==
  UNION {MissingInField(n, StructFields(n)[i], v[StructFields(n)[i].Name],
                        Append(path, StructFields(n)[i].Name)) :
           i \in 1..Len(StructFields(n))}

MissingInside(t, x, path) ==
  CASE t.kind = "Struct" -> MissingInStruct(t.name, x, path)
    [] t.kind = "Ptr" -> MissingInside(t.elem[1], x[1], path)
    [] t.kind = "Slice" ->
         UNION {MissingInside(t.elem[1], x[i], Append(path, ToString(i))) : i \in 1..Len(x)}
    [] t.kind = "Map" ->
         UNION {MissingInside(t.elem[1], x[k], Append(path, k)) : k \in DOMAIN x}
    [] OTHER -> {}

WalkMissing == MissingInStruct("Outer", walkObj, <<>>)

\* C5: checkMandatory returns exactly one error per missing required field,
\* at any depth: as many errors as there are missing required fields, and for
\* each record name and field name as many errors naming them as there are
\* missing fields of that name; none for a field marked omitempty.
C5_OneErrorPerMissingField ==
  pc = "walked" =>
    LET missing == WalkMissing
        names == {<<m.owner, m.field>> : m \in missing}
        named == {walkErrs[e].args : e \in 1..Len(walkErrs)}
    IN  /\ Len(walkErrs) = Cardinality(missing)
        /\ named = names
        /\ \A n \in names :
             Cardinality({e \in 1..Len(walkErrs) : walkErrs[e].args = n})
               = Cardinality({m \in missing : m.owner = n[1] /\ m.field = n[2]})

C5_Witness ==
  /\ pc = "walked"
  /\ Len(walkErrs) >= 6
  /\ walkObj.S = ""
  /\ walkObj.O = ""
  /\ Len(walkObj.L) = 2 /\ walkObj.L[1].Name = "" /\ walkObj.L[2].Name = ""
  /\ DOMAIN walkObj.M = MapKeyUniverse /\ walkObj.M["k1"].A = "" /\ walkObj.M["k2"].B = ""
  /\ walkObj.Pn # <<>> /\ walkObj.Pn[1].N = <<>>

====
